---- MODULE Spec2Model ----
(***************************************************************************)
(* A model of the bioRxiv author watcher: the page walk and author         *)
(* matcher of BiorxivAgent (find_papers.py), the notification log writer,  *)
(* the log parser and the posting run of BlueskyPoster                     *)
(* (post_to_bluesky.py), the intent router of AIAgent (ai_agent.py), the   *)
(* prompt file names of PaperImageGenerator (generate_paper_images.py) and *)
(* the batch of PaperSummarizer (summarize_papers.py).                     *)
(*                                                                         *)
(* A Python str is a sequence of one-character strings, so that strip,     *)
(* split, "in" and the regular expressions are computed character by       *)
(* character.                                                              *)
(***************************************************************************)
EXTENDS Integers, Sequences, FiniteSets, TLC

VARIABLES
    wpc,            \* position in search_authors_with_cursor: "idle", "loop", "return"
    cursor,         \* the loop variable of the page walk
    target_authors, \* the target_authors argument of the running search
    found_papers,   \* the insertion-ordered dict of the running search, as a sequence
    fetches,        \* the cursor of every page request the running search issued
    pages_seen,     \* the collection each of those requests yielded
    page_matches,   \* per fetched page, the matching_authors computed for each record
    results,        \* what the last finished search returned
    max_cursor,     \* the max_cursor argument of the running search
    fetch_ok,       \* per page request of the running search: did it succeed
    log,            \* the notification log file: [exists, content]
    clock,          \* number of timestamps taken so far (datetime.now())
    hist,           \* every log_paper_notification call: [papers, before, after]
    summaries,      \* what the last extract_summaries_from_log returned
    last_paper_doi, \* AIAgent.last_paper_doi: a Python str or None
    apc,            \* position in AIAgent.process_query: "idle", "finding"
    turn,           \* the latest query handled: [response, last_before, effects, reply]
    nsearch,        \* searches started so far
    ncalls,         \* top-level operations started so far
    ppc,            \* position in main() of post_to_bluesky.py
    creds,          \* what __init__ was given, and .handle and .password as resolved
    net,            \* login, send_post and sleep calls of the poster run, in order
    report,         \* what the poster run printed, in order
    summary_file,   \* the summary file as process_summaries read it
    posts,          \* summaries[:max_posts] of the running process_summaries
    max_posts,      \* the max_posts argument
    post_i,         \* the loop index i of process_summaries
    prompt_files,   \* names of the prompt files in the image directory
    image_prompt,   \* the latest find_image_prompt call: [called, title, file, found]
    spc,            \* position in PaperSummarizer.process_log_file
    dois,           \* the list re.findall gave process_log_file
    doi_i,          \* index of the DOI the loop is at
    detail_fetches, \* every get_paper_by_doi call: [doi, outcome, data]
    printed,        \* the DOI of every summary block process_log_file printed
    model_calls,    \* summarize_paper and generate_image_prompt calls: [fn, paper, reply, result]
    writers,        \* per process running log_paper_notification: [pc, papers, new_papers]
    overlapped,     \* did two log_paper_notification calls ever run at the same time
    wrapper_calls   \* every LanguageModelWrapper.generate_response call

walkVars == <<wpc, cursor, target_authors, found_papers, fetches, pages_seen,
              page_matches, results, max_cursor, fetch_ok>>
logVars == <<log, clock, hist>>
agentVars == <<last_paper_doi, apc, turn>>

posterVars == <<ppc, creds, net, report, summary_file, posts, max_posts, post_i>>
slugVars == <<prompt_files, image_prompt>>
summarizerVars == <<spc, dois, doi_i, detail_fetches, printed>>
callVars == <<model_calls, writers, overlapped, wrapper_calls>>
sideVars == <<posterVars, slugVars, summarizerVars, callVars>>

vars == <<walkVars, logVars, agentVars, summaries, nsearch, ncalls, sideVars>>

-----------------------------------------------------------------------------
(* Bounds of the model. *)

MaxCalls == 2
MaxSearches == 1
MaxQueries == 2

-----------------------------------------------------------------------------
(* Python str operations. *)

Min(S) == CHOOSE x \in S : \A y \in S : x <= y
Max(S) == CHOOSE x \in S : \A y \in S : x >= y
Range(f) == {f[i] : i \in DOMAIN f}

RECURSIVE Concat(_)
Concat(ss) == IF ss = <<>> THEN <<>> ELSE Head(ss) \o Concat(Tail(ss))

NL == <<"\n">>

IsSpace(c) == c \in {" ", "\n", "\t"}

\* str.strip(): without the leading and the trailing whitespace
Strip(s) ==
    LET keep == {i \in 1..Len(s) : ~IsSpace(s[i])}
    IN  IF keep = {} THEN <<>> ELSE SubSeq(s, Min(keep), Max(keep))

\* sub occurs in s at index i
StartsAt(s, sub, i) ==
    /\ i + Len(sub) - 1 <= Len(s)
    /\ \A k \in 1..Len(sub) : s[i + k - 1] = sub[k]

\* the leftmost index in lo..hi at which sub occurs in s, 0 when there is none
\* (by halving, so that the evaluation of a long text stays shallow)
RECURSIVE FindIn(_, _, _, _)
FindIn(s, sub, lo, hi) ==
    IF lo > hi THEN 0
    ELSE IF lo = hi THEN (IF StartsAt(s, sub, lo) THEN lo ELSE 0)
    ELSE LET mid == (lo + hi) \div 2
             left == FindIn(s, sub, lo, mid)
         IN  IF left # 0 THEN left ELSE FindIn(s, sub, mid + 1, hi)

\* str.find(sub, from), 1-based, 0 when absent
Find(s, sub, from) == FindIn(s, sub, from, Len(s) - Len(sub) + 1)

\* the `in` operator on str: sub in s
Contains(sub, s) == Find(s, sub, 1) # 0

\* str.split(sep): the pieces between the leftmost non-overlapping occurrences
RECURSIVE SplitFrom(_, _, _)
SplitFrom(s, sep, from) ==
    LET i == Find(s, sep, from)
    IN  IF i = 0
        THEN <<SubSeq(s, from, Len(s))>>
        ELSE <<SubSeq(s, from, i - 1)>> \o SplitFrom(s, sep, i + Len(sep))

SplitOn(s, sep) == SplitFrom(s, sep, 1)

-----------------------------------------------------------------------------
(* Text constants of the log format. *)

DelimLen == 50
Delim == [i \in 1..DelimLen |-> "="]

TitlePrefix == <<"T", "i", "t", "l", "e", ":", " ">>
MatchingAuthorsLine ==
    <<"M", "a", "t", "c", "h", "i", "n", "g", " ", "A", "u", "t", "h", "o", "r", "s",
      ":", "\n">>
AuthorBullet == <<" ", " ", "-", " ">>
DatePrefix == <<"D", "a", "t", "e", ":", " ">>
DoiPrefix == <<"D", "O", "I", ":", " ">>
HeaderOpen ==
    <<"\n", "\n", "=", "=", "=", " ", "N", "e", "w", " ", "P", "a", "p", "e", "r", "s",
      " ", "F", "o", "u", "n", "d", " ", "a", "t", " ">>
HeaderClose == <<" ", "=", "=", "=", "\n">>
NoAffiliation ==
    <<"N", "o", " ", "a", "f", "f", "i", "l", "i", "a", "t", "i", "o", "n", " ", "l",
      "i", "s", "t", "e", "d">>

-----------------------------------------------------------------------------
(* What the source API can answer: the records, the pages. *)

Doi1 == <<"1", "0", ".", "1", "1", "0", "1", "/", "a">>
Doi2 == <<"1", "0", ".", "1", "1", "0", "1", "/", "b">>
Doi3 == <<"1", "0", ".", "1", "1", "0", "1", "/", "c">>

RecA ==
    [doi |-> Doi1, title |-> <<"F", "o">>, date |-> <<"d", "1">>,
     authors |-> <<"A", "b", ";", " ", "C", "d">>,
     affiliations |-> <<"L", ";", " ", "M">>]
\* the identifier of RecA again, with other data
RecA2 ==
    [doi |-> Doi1, title |-> <<"B", "a">>, date |-> <<"d", "2">>,
     authors |-> <<"A", "b", "c", ";", "a", "b">>,
     affiliations |-> <<>>]
\* the title of RecA under another identifier
RecB ==
    [doi |-> Doi2, title |-> <<"F", "o">>, date |-> <<"d", "1">>,
     authors |-> <<"a", "b", ";", "A", "b">>,
     affiliations |-> <<"L">>]
\* a title with leading whitespace, one author name at two indices
RecC ==
    [doi |-> Doi3, title |-> <<" ", "F", "o">>, date |-> <<"d", "2">>,
     authors |-> <<"A", "b", ";", "A", "b">>,
     affiliations |-> <<"L", ";", "M">>]

\* The outcome of one page request: a transport or status failure, or a
\* JSON body with a collection (possibly empty).
PageChoices ==
    { [ok |-> FALSE, collection |-> <<>>],
      [ok |-> TRUE, collection |-> <<>>],
      [ok |-> TRUE, collection |-> <<RecA>>],
      [ok |-> TRUE, collection |-> <<RecA2, RecB>>],
      [ok |-> TRUE, collection |-> <<RecB, RecA, RecA2>>],
      [ok |-> TRUE, collection |-> <<RecC>>] }

TargetChoices ==
    { <<>>,
      << <<"A", "b">> >>,
      << <<" ", "A", "b", " ">>, <<"C", "d">> >>,
      << <<"C", "d">>, <<"a">> >>,
      << <<"b">> >> }

-----------------------------------------------------------------------------
(* BiorxivAgent.get_papers_by_date_range *)

get_papers_by_date_range(answer) ==
    IF answer.ok
    THEN [collection |-> answer.collection]
    ELSE [collection |-> <<>>]

-----------------------------------------------------------------------------
(* The author matcher inside BiorxivAgent.search_authors_with_cursor *)

\* any(target.strip() in author for target in target_authors), mutated:
\* equality instead of containment
AnyTargetEquals(author, targets) ==
    \E k \in DOMAIN targets : Strip(targets[k]) = author

\* any(target.strip() in author for target in target_authors)
AnyTargetIn(author, targets) ==
    \E k \in DOMAIN targets : Contains(Strip(targets[k]), author)

\* the author_affiliations dict: a later index of the same name overwrites
AuthorAffiliations(authors, affiliations) ==
    [name \in {Strip(authors[i]) : i \in DOMAIN authors} |->
        LET last == Max({i \in DOMAIN authors : Strip(authors[i]) = name})
        IN  IF last <= Len(affiliations)
            THEN Strip(affiliations[last])
            ELSE NoAffiliation]

\* the matching_authors list of one record
MatchingAuthors(paper, targets) ==
    LET authors == SplitOn(paper.authors, <<";">>)
        affiliations == SplitOn(paper.affiliations, <<";">>)
        author_affiliations == AuthorAffiliations(authors, affiliations)
        stripped == [i \in DOMAIN authors |-> Strip(authors[i])]
        hits == SelectSeq(stripped, LAMBDA a : AnyTargetIn(a, targets))
    IN  [i \in DOMAIN hits |->
            [name |-> hits[i], affiliation |-> author_affiliations[hits[i]]]]

-----------------------------------------------------------------------------
(* The found_papers dict of search_authors_with_cursor: a sequence of      *)
(* values in insertion order, keyed by their doi.                          *)

InDict(d, doi) == \E i \in DOMAIN d : d[i].doi = doi

MatchedPaper(paper, matching) ==
    [doi |-> paper.doi, title |-> paper.title,
     matching_authors |-> matching, date |-> paper.date]

\* the guarded insert, mutated: a later record of the same doi overwrites
AddPaperLastWins(d, paper, matching) ==
    IF matching = <<>> THEN d
    ELSE IF InDict(d, paper.doi)
         THEN [i \in DOMAIN d |->
                  IF d[i].doi = paper.doi THEN MatchedPaper(paper, matching) ELSE d[i]]
         ELSE Append(d, MatchedPaper(paper, matching))

\* if matching_authors: if doi not in found_papers: found_papers[doi] = {...}
AddPaper(d, paper, matching) ==
    IF matching = <<>> THEN d
    ELSE IF InDict(d, paper.doi) THEN d
         ELSE Append(d, MatchedPaper(paper, matching))

\* for paper in collection: ...
RECURSIVE ProcessPage(_, _, _)
ProcessPage(d, collection, targets) ==
    IF collection = <<>> THEN d
    ELSE ProcessPage(AddPaper(d, Head(collection),
                              MatchingAuthors(Head(collection), targets)),
                     Tail(collection), targets)

\* if not collection: break, mutated: the walk goes on
StopNever(collection) == FALSE

\* if not collection: break
StopOnEmpty(collection) == collection = <<>>

\* range(143, 146)
CursorFirst == 143
CursorStop == 146

\* the default of the max_cursor parameter, and the values a caller may pass
DefaultMaxCursor == 145
MaxCursorChoices == {0, 144, 146}

\* range(143, 146), whatever max_cursor is; mutated: the window ends at max_cursor
WalkRangeToMax(max) == CursorFirst .. max

\* for cursor in range(143, 146)
WalkRange(max) == CursorFirst .. (CursorStop - 1)

-----------------------------------------------------------------------------
(* BiorxivAgent.log_paper_notification *)

\* datetime.now().strftime(...): a fresh reading of the clock
Digit == <<"0", "1", "2", "3", "4", "5", "6", "7", "8", "9">>
Timestamp(n) == <<"t", Digit[(n % 10) + 1]>>

\* the titles read back from the log
ExistingTitles(file) ==
    IF ~file.exists THEN {}
    ELSE LET lines == SplitOn(file.content, NL)
         IN  {Strip(SubSeq(lines[i], 8, Len(lines[i]))) :
                 i \in {j \in DOMAIN lines : StartsAt(lines[j], TitlePrefix, 1)}}

NewPapers(file, papers) ==
    LET existing_titles == ExistingTitles(file)
    IN  SelectSeq(papers, LAMBDA p : p.title \notin existing_titles)

AuthorLines(authors) ==
    Concat([i \in DOMAIN authors |->
               AuthorBullet \o authors[i].name \o <<" ", "(">>
               \o authors[i].affiliation \o <<")", "\n">>])

RecordText(paper) ==
    NL \o Delim \o NL
    \o TitlePrefix \o paper.title \o NL
    \o MatchingAuthorsLine
    \o AuthorLines(paper.matching_authors)
    \o DatePrefix \o paper.date \o NL
    \o DoiPrefix \o paper.doi \o NL
    \o Delim \o NL

HeaderText(ts) == HeaderOpen \o ts \o HeaderClose

\* open(log_file, 'a') and the writes, mutated: the file is opened with 'w'
OpenTruncate(file, text) == [exists |-> TRUE, content |-> text]

\* open(log_file, 'a') and the writes
OpenAppend(file, text) ==
    [exists |-> TRUE, content |-> (IF file.exists THEN file.content ELSE <<>>) \o text]

\* the file after log_paper_notification(papers) taking its timestamp at ts
log_paper_notification(file, papers, ts) ==
    IF papers = <<>> THEN file
    ELSE LET new_papers == NewPapers(file, papers)
         IN  IF new_papers = <<>> THEN file
             ELSE OpenAppend(file,
                     HeaderText(ts)
                     \o Concat([i \in DOMAIN new_papers |-> RecordText(new_papers[i])]))

-----------------------------------------------------------------------------
(* Python values where the code tells them apart: None, str, bool, dict and   *)
(* list (json.loads results, dict.get defaults, last_paper_doi).             *)

PyNone == [type |-> "none"]
PyStr(s) == [type |-> "str", s |-> s]
PyBool(b) == [type |-> "bool", b |-> b]
PyDict(f) == [type |-> "dict", fields |-> f]
PyList == [type |-> "list"]
EmptyDict == PyDict([k \in {} |-> PyNone])

\* truth value of a Python value in a condition
Truthy(v) ==
    CASE v.type = "none" -> FALSE
      [] v.type = "bool" -> v.b
      [] v.type = "str" -> v.s # <<>>
      [] v.type = "dict" -> DOMAIN v.fields # {}
      [] OTHER -> FALSE

NoTurn == [response |-> [kind |-> "none"], last_before |-> PyNone,
           effects |-> <<>>, reply |-> ""]

-----------------------------------------------------------------------------
(* The page walk, one action per loop iteration. *)

\* the processes that may run log_paper_notification on the one log file
Procs == {1, 2}
IdleWriter == [pc |-> "idle", papers |-> <<>>, new_papers |-> <<>>]

Init ==
    /\ wpc = "idle"
    /\ cursor = CursorFirst
    /\ target_authors = <<>>
    /\ found_papers = <<>>
    /\ fetches = <<>>
    /\ pages_seen = <<>>
    /\ page_matches = <<>>
    /\ results = <<>>
    /\ max_cursor = DefaultMaxCursor
    /\ fetch_ok = <<>>
    /\ log = [exists |-> FALSE, content |-> <<>>]
    /\ clock = 0
    /\ hist = <<>>
    /\ summaries = <<>>
    /\ last_paper_doi = PyNone
    /\ apc = "idle"
    /\ turn = NoTurn
    /\ nsearch = 0
    /\ ncalls = 0
    /\ ppc = "start"
    /\ creds = [given |-> [handle |-> PyNone, password |-> PyNone,
                            env_handle |-> PyNone, env_password |-> PyNone],
                 handle |-> PyNone, password |-> PyNone]
    /\ net = <<>>
    /\ report = <<>>
    /\ summary_file = [exists |-> FALSE, content |-> <<>>]
    /\ posts = <<>>
    /\ max_posts = 0
    /\ post_i = 0
    /\ prompt_files = {}
    /\ image_prompt = [called |-> FALSE, title |-> <<>>, file |-> <<>>, found |-> FALSE]
    /\ spc = "idle"
    /\ dois = <<>>
    /\ doi_i = 0
    /\ detail_fetches = <<>>
    /\ printed = <<>>
    /\ model_calls = <<>>
    /\ writers = [p \in Procs |-> IdleWriter]
    /\ overlapped = FALSE
    /\ wrapper_calls = <<>>

\* search_authors_with_cursor is entered: found_papers = {}
BeginWalk(targets, max) ==
    /\ wpc' = IF CursorFirst \in WalkRange(max) THEN "loop" ELSE "return"
    /\ max_cursor' = max
    /\ fetch_ok' = <<>>
    /\ cursor' = CursorFirst
    /\ target_authors' = targets
    /\ found_papers' = <<>>
    /\ fetches' = <<>>
    /\ pages_seen' = <<>>
    /\ page_matches' = <<>>
    /\ results' = <<>>

\* search_authors_with_cursor called directly, as main() of find_papers.py does
StartSearch(targets, max) ==
    /\ wpc = "idle"
    /\ apc = "idle"
    /\ nsearch < MaxSearches
    /\ ncalls < MaxCalls
    /\ nsearch' = nsearch + 1
    /\ ncalls' = ncalls + 1
    /\ BeginWalk(targets, max)
    /\ UNCHANGED <<logVars, agentVars, summaries, sideVars>>

\* one iteration of for cursor in range(143, 146)
FetchPage(answer) ==
    /\ wpc = "loop"
    /\ LET collection == get_papers_by_date_range(answer).collection
       IN  /\ fetches' = Append(fetches, cursor)
           /\ fetch_ok' = Append(fetch_ok, answer.ok)
           /\ pages_seen' = Append(pages_seen, collection)
           /\ IF StopOnEmpty(collection)
              THEN /\ wpc' = "return"
                   /\ page_matches' = Append(page_matches, <<>>)
                   /\ UNCHANGED <<cursor, found_papers>>
              ELSE /\ found_papers' = ProcessPage(found_papers, collection, target_authors)
                   /\ page_matches' =
                         Append(page_matches,
                                [i \in DOMAIN collection |->
                                    MatchingAuthors(collection[i], target_authors)])
                   /\ cursor' = cursor + 1
                   /\ wpc' = IF cursor + 1 \in WalkRange(max_cursor)
                              THEN "loop" ELSE "return"
    /\ UNCHANGED <<target_authors, results, max_cursor, logVars, agentVars,
                   summaries, nsearch, ncalls, sideVars>>

\* results = list(found_papers.values()); if results: log_paper_notification(results)
ReturnResults ==
    /\ wpc = "return"
    /\ results' = found_papers
    /\ log' = log_paper_notification(log, found_papers, Timestamp(clock))
    /\ clock' = IF log' # log THEN clock + 1 ELSE clock
    /\ hist' = IF found_papers = <<>> THEN hist
               ELSE Append(hist, [papers |-> found_papers, before |-> log, after |-> log'])
    /\ wpc' = "idle"
    /\ UNCHANGED <<cursor, target_authors, found_papers, fetches, pages_seen,
                   page_matches, max_cursor, fetch_ok, agentVars, summaries,
                   nsearch, ncalls, sideVars>>

NextWalk ==
    \/ \E targets \in TargetChoices : StartSearch(targets, DefaultMaxCursor)
    \/ \E answer \in PageChoices : FetchPage(answer)
    \/ ReturnResults

SpecWalk == Init /\ [][NextWalk]_vars

-----------------------------------------------------------------------------
(* Claims about the author matcher and the page walk (SpecWalk). *)

\* t is a substring of a
IsSubstr(t, a) ==
    \E i \in 1..(Len(a) - Len(t) + 1) : SubSeq(a, i, i + Len(t) - 1) = t

\* the author entries of a record: split on ';', each trimmed
Entries(rec) ==
    LET parts == SplitOn(rec.authors, <<";">>)
    IN  [i \in DOMAIN parts |-> Strip(parts[i])]

Names(m) == {m[i].name : i \in DOMAIN m}

Perms(seq) ==
    {[i \in DOMAIN seq |-> seq[f[i]]] : f \in Permutations(DOMAIN seq)}

\* the records of the fetched pages in walk order, each with its matching_authors
FlatSeen ==
    Concat([p \in DOMAIN pages_seen |->
               [r \in DOMAIN pages_seen[p] |->
                   [rec |-> pages_seen[p][r], m |-> page_matches[p][r]]]])

MatchingSeen == SelectSeq(FlatSeen, LAMBDA e : e.m # <<>>)

\* of the matching records, the first of each identifier, in walk order
FirstSeen ==
    LET idx == {i \in DOMAIN MatchingSeen :
                   \A j \in 1..(i - 1) : MatchingSeen[j].rec.doi # MatchingSeen[i].rec.doi}
        RECURSIVE Pick(_)
        Pick(i) ==
            IF i > Len(MatchingSeen) THEN <<>>
            ELSE (IF i \in idx
                  THEN << [doi |-> MatchingSeen[i].rec.doi,
                           title |-> MatchingSeen[i].rec.title,
                           matching_authors |-> MatchingSeen[i].m,
                           date |-> MatchingSeen[i].rec.date] >>
                  ELSE <<>>) \o Pick(i + 1)
    IN  Pick(1)

SearchReturned == wpc = "idle" /\ nsearch > 0

\* C1: for every record of a fetched page, an author entry (split on ';',
\* trimmed) is among the record's matching_authors exactly when some trimmed
\* target is a case-sensitive substring of it, and the matched set is the same
\* for every permutation of target_authors.
C1_MatchIffSubstring ==
    \A p \in DOMAIN pages_seen : \A r \in DOMAIN pages_seen[p] :
        LET rec == pages_seen[p][r]
            m == page_matches[p][r]
            entries == Entries(rec)
        IN  /\ \A i \in DOMAIN entries :
                   (entries[i] \in Names(m))
                   <=> (\E k \in DOMAIN target_authors :
                           IsSubstr(Strip(target_authors[k]), entries[i]))
            /\ \A perm \in Perms(target_authors) :
                   Names(MatchingAuthors(rec, perm)) = Names(m)

\* C1's case: a record with an entry matched by containment only (no target
\* equals it), another entry unmatched, under two targets one of which
\* needs trimming.
C1_Witness ==
    /\ Len(target_authors) = 2
    /\ \E k \in DOMAIN target_authors : Strip(target_authors[k]) # target_authors[k]
    /\ \E p \in DOMAIN pages_seen : \E r \in DOMAIN pages_seen[p] :
          LET m == page_matches[p][r]
              entries == Entries(pages_seen[p][r])
          IN  /\ \E i \in DOMAIN entries : entries[i] \notin Names(m)
              /\ \E i \in DOMAIN m :
                    \A k \in DOMAIN target_authors : Strip(target_authors[k]) # m[i].name

\* C2: a finished search returns, for every identifier with a matching record
\* on the fetched pages, exactly one MatchedPaper carrying the title, date and
\* matching_authors of its first matching occurrence in walk order, in order
\* of first discovery.
C2_FirstSeenWins == SearchReturned => results = FirstSeen

\* C2's case: an identifier matched twice with different titles, the second
\* time on a later page, and another paper found as well.
C2_Witness ==
    /\ SearchReturned
    /\ Len(results) >= 2
    /\ \E p, q \in DOMAIN pages_seen :
          /\ p < q
          /\ \E r \in DOMAIN pages_seen[p] : \E u \in DOMAIN pages_seen[q] :
                /\ pages_seen[p][r].doi = pages_seen[q][u].doi
                /\ pages_seen[p][r].title # pages_seen[q][u].title
                /\ page_matches[p][r] # <<>>
                /\ page_matches[q][u] # <<>>

\* C3: once a fetched page has an empty collection no later page is fetched,
\* and the search returns the matches of the pages fetched before it.
C3_EarlyStop ==
    /\ \A p \in DOMAIN pages_seen : pages_seen[p] = <<>> => p = Len(pages_seen)
    /\ Len(fetches) = Len(pages_seen)
    /\ (SearchReturned /\ pages_seen # <<>> /\ pages_seen[Len(pages_seen)] = <<>>)
          => results = FirstSeen

\* C3's case: the second page of the window is empty, the first held a match,
\* and the search has returned after two fetches.
C3_Witness ==
    /\ SearchReturned
    /\ Len(fetches) = 2
    /\ pages_seen[2] = <<>>
    /\ results # <<>>

\* C15: a page request that fails does not end the walk: after a failed
\* request for a page before the last of the window the next page is
\* requested too, and the finished search returns the matches of the pages
\* that were fetched.
C15_FailureDoesNotAbort ==
    SearchReturned =>
        /\ \A k \in DOMAIN fetch_ok :
              (~fetch_ok[k] /\ fetches[k] < CursorStop - 1) => Len(fetches) > k
        /\ results = FirstSeen

\* C16: every matching_authors entry carries the affiliation that stands at
\* the index of its author in the split affiliations list (trimmed), or 'No
\* affiliation listed' when the list is shorter, also for a name that stands
\* at several indices.
C16_PositionalAffiliation ==
    \A p \in DOMAIN pages_seen : \A r \in DOMAIN pages_seen[p] :
        LET rec == pages_seen[p][r]
            m == page_matches[p][r]
            entries == Entries(rec)
            affs == SplitOn(rec.affiliations, <<";">>)
            \* the indices of the matched entries, ascending
            at == SelectSeq([i \in DOMAIN entries |-> i],
                            LAMBDA i : entries[i] \in Names(m))
        IN  /\ Len(m) = Len(at)
            /\ \A j \in DOMAIN m :
                  /\ m[j].name = entries[at[j]]
                  /\ m[j].affiliation =
                        IF at[j] <= Len(affs) THEN Strip(affs[at[j]])
                        ELSE NoAffiliation

\* The walk called with a max_cursor of the caller's choice, under the
\* scheduling of a synchronous loop: an iteration that can run does run, and
\* the function returns.
WindowTargets == { << <<"A", "b">> >>, << <<"C", "d">> >> }
WindowPages ==
    { [ok |-> FALSE, collection |-> <<>>],
      [ok |-> TRUE, collection |-> <<>>],
      [ok |-> TRUE, collection |-> <<RecA>>],
      [ok |-> TRUE, collection |-> <<RecB>>] }

NextWindow ==
    \/ \E targets \in WindowTargets, max \in MaxCursorChoices :
          StartSearch(targets, max)
    \/ \E answer \in WindowPages : FetchPage(answer)
    \/ ReturnResults

SpecWindow ==
    /\ Init
    /\ [][NextWindow]_vars
    /\ WF_vars(\E answer \in WindowPages : FetchPage(answer))
    /\ WF_vars(ReturnResults)

\* C18: the page requests of a search are 143, 144, 145 in this order or a
\* prefix of it, whatever max_cursor is and whatever the pages hold, and a
\* search that has started returns.
C18_BoundedWalk ==
    /\ [](/\ Len(fetches) <= 3
          /\ \A k \in DOMAIN fetches : fetches[k] = 142 + k)
    /\ (wpc = "loop" ~> wpc = "idle")

\* C18's case: a search called with max_cursor = 144 has returned after
\* requesting page 145 as the third page.
C18_Witness ==
    /\ SearchReturned
    /\ max_cursor = 144
    /\ fetches = <<143, 144, 145>>

-----------------------------------------------------------------------------
(* BlueskyPoster.extract_summaries_from_log *)

AuthorsPrefix == <<"A", "u", "t", "h", "o", "r", "s", ":", " ">>
SummaryLabel == <<"S", "u", "m", "m", "a", "r", "y", ":", "\n">>
UnknownTitle == <<"U", "n", "k", "n", "o", "w", "n", " ", "T", "i", "t", "l", "e">>
UnknownDOI == <<"U", "n", "k", "n", "o", "w", "n", " ", "D", "O", "I">>
UnknownAuthors ==
    <<"U", "n", "k", "n", "o", "w", "n", " ", "A", "u", "t", "h", "o", "r", "s">>

\* re.search(label + r'(.*?)(?:\n|$)', entry): at the leftmost occurrence of
\* the label, group 1 runs to the next newline or to the end; then .strip().
\* The sentinel when the label does not occur.
LabelledValue(entry, label, sentinel) ==
    LET at == Find(entry, label, 1)
        from == at + Len(label)
        nl == Find(entry, NL, from)
    IN  IF at = 0 THEN sentinel
        ELSE Strip(SubSeq(entry, from, IF nl = 0 THEN Len(entry) ELSE nl - 1))

\* re.search(r'Summary:\n(.*?)(?:\n\n|$)', entry, re.DOTALL): group 1 runs to
\* the next blank line or to the end ($ also matches before a final newline,
\* which .strip() removes anyway); "" when the label does not occur.
SummaryText(entry) ==
    LET at == Find(entry, SummaryLabel, 1)
        from == at + Len(SummaryLabel)
        blank == Find(entry, NL \o NL, from)
    IN  IF at = 0 THEN <<>>
        ELSE Strip(SubSeq(entry, from, IF blank = 0 THEN Len(entry) ELSE blank - 1))

\* the dict appended for one entry
SummaryRecord(entry) ==
    [title |-> LabelledValue(entry, TitlePrefix, UnknownTitle),
     doi |-> LabelledValue(entry, DoiPrefix, UnknownDOI),
     authors |-> LabelledValue(entry, AuthorsPrefix, UnknownAuthors),
     summary |-> SummaryText(entry)]

\* extract_summaries_from_log, mutated: 'if summary:' is dropped
extract_without_gate(file) ==
    IF ~file.exists THEN <<>>
    ELSE LET paper_entries == SplitOn(file.content, Delim)
             kept == SelectSeq(paper_entries, LAMBDA e : Strip(e) # <<>>)
         IN  [i \in DOMAIN kept |-> SummaryRecord(kept[i])]

\* the list returned for the content of the summary file; [] when the file
\* cannot be read
extract_summaries_from_log(file) ==
    IF ~file.exists THEN <<>>
    ELSE LET paper_entries == SplitOn(file.content, Delim)
             kept == SelectSeq(paper_entries,
                               LAMBDA e : Strip(e) # <<>> /\ SummaryText(e) # <<>>)
         IN  [i \in DOMAIN kept |-> SummaryRecord(kept[i])]

-----------------------------------------------------------------------------
(* The log writer called directly, searches over a small catalogue, and the  *)
(* poster's parser run on the notification log.                             *)

Author1 == [name |-> <<"A", "b">>, affiliation |-> <<"L">>]

PaperFo ==
    [doi |-> Doi1, title |-> <<"F", "o">>, date |-> <<"d", "1">>,
     matching_authors |-> <<Author1>>]
\* the title of PaperFo under another identifier
PaperFoAgain ==
    [doi |-> Doi2, title |-> <<"F", "o">>, date |-> <<"d", "2">>,
     matching_authors |-> <<Author1>>]
\* a title with leading whitespace, as the API delivered it
PaperSpaceFo ==
    [doi |-> Doi3, title |-> <<" ", "F", "o">>, date |-> <<"d", "1">>,
     matching_authors |-> <<Author1>>]
PaperBa ==
    [doi |-> Doi2, title |-> <<"B", "a">>, date |-> <<"d", "2">>,
     matching_authors |-> <<Author1, [name |-> <<"C", "d">>, affiliation |-> NoAffiliation]>>]
\* a date field that carries a Summary block
PaperWithSummary ==
    [doi |-> Doi3, title |-> <<"Q", "u">>,
     date |-> <<"d", "3", "\n", "S", "u", "m", "m", "a", "r", "y", ":", "\n", "s">>,
     matching_authors |-> <<Author1>>]

PaperLists ==
    { <<>>,
      <<PaperFo>>,
      <<PaperFoAgain>>,
      <<PaperFo, PaperFoAgain>>,
      <<PaperSpaceFo>>,
      <<PaperBa, PaperFo>>,
      <<PaperWithSummary>> }

LogTargets == { << <<"A", "b">> >> }

LogPages ==
    { [ok |-> TRUE, collection |-> <<>>],
      [ok |-> TRUE, collection |-> <<RecA>>],
      [ok |-> TRUE, collection |-> <<RecC>>] }

\* log_paper_notification(papers), called directly
CallLog(papers) ==
    /\ wpc = "idle"
    /\ ncalls < MaxCalls
    /\ ncalls' = ncalls + 1
    /\ log' = log_paper_notification(log, papers, Timestamp(clock))
    /\ clock' = IF log' # log THEN clock + 1 ELSE clock
    /\ hist' = Append(hist, [papers |-> papers, before |-> log, after |-> log'])
    /\ UNCHANGED <<walkVars, agentVars, summaries, nsearch, sideVars>>

\* BlueskyPoster(summary_file = the notification log).extract_summaries_from_log()
ExtractSummaries ==
    /\ wpc = "idle"
    /\ summaries' = extract_summaries_from_log(log)
    /\ UNCHANGED <<walkVars, logVars, agentVars, nsearch, ncalls, sideVars>>

NextLog ==
    \/ \E papers \in PaperLists : CallLog(papers)
    \/ \E targets \in LogTargets : StartSearch(targets, DefaultMaxCursor)
    \/ \E answer \in LogPages : FetchPage(answer)
    \/ ReturnResults
    \/ ExtractSummaries

SpecLog == Init /\ [][NextLog]_vars

-----------------------------------------------------------------------------
(* Claims about the notification log (SpecLog). *)

IsPrefix(s, t) == Len(s) <= Len(t) /\ SubSeq(t, 1, Len(s)) = s

\* the lines of a file
LinesOf(file) == IF file.exists THEN Range(SplitOn(file.content, NL)) ELSE {}

\* C4: two calls in a row with the same papers: the second one leaves the log
\* as the first one left it.
C4_Idempotent ==
    \A i \in DOMAIN hist :
        (i > 1 /\ hist[i].papers = hist[i - 1].papers) => hist[i].after = hist[i].before

\* the papers handed to the writer so far
PapersLogged == UNION {Range(hist[i].papers) : i \in DOMAIN hist}

\* the names of a MatchedPaper's authors, joined as the source API joins them
RECURSIVE JoinNames(_)
JoinNames(authors) ==
    IF authors = <<>> THEN <<>>
    ELSE IF Len(authors) = 1 THEN authors[1].name
    ELSE authors[1].name \o <<";", " ">> \o JoinNames(Tail(authors))

\* C5: every record the parser returns from the writer's log carries the
\* title, the DOI and the authors of a MatchedPaper that was logged.
C5_RoundTrip ==
    \A k \in DOMAIN summaries :
        \E p \in PapersLogged :
            /\ summaries[k].title = p.title
            /\ summaries[k].doi = p.doi
            /\ summaries[k].authors = JoinNames(p.matching_authors)
            /\ summaries[k].authors # UnknownAuthors

\* C6: a call with no papers, or with papers each of whose titles stands on
\* a 'Title: ' line of the log, leaves the log as it was.
C6_NothingNewNothingWritten ==
    \A i \in DOMAIN hist :
        (\A k \in DOMAIN hist[i].papers :
            (TitlePrefix \o hist[i].papers[k].title) \in LinesOf(hist[i].before))
        => hist[i].after = hist[i].before

\* C7: every step leaves the earlier content of the log as a prefix of the
\* later content, and never removes the file.
C7_AppendOnly ==
    [][/\ log.exists => log'.exists
       /\ IsPrefix(log.content, log'.content)]_vars

\* C7's case: two calls have each appended to the log.
C7_Witness ==
    \E i, j \in DOMAIN hist :
        /\ i < j
        /\ hist[i].after # hist[i].before
        /\ hist[j].after # hist[j].before
        /\ hist[j].before.content # <<>>

-----------------------------------------------------------------------------
(* The DOI pattern of AIAgent._summarize_paper and _generate_image:         *)
(*     10\.\d{4,9}/[-._;()/:\w]+                                            *)

Digits == {"0", "1", "2", "3", "4", "5", "6", "7", "8", "9"}
Letters ==
    {"a", "b", "c", "d", "e", "f", "g", "h", "i", "j", "k", "l", "m",
     "n", "o", "p", "q", "r", "s", "t", "u", "v", "w", "x", "y", "z",
     "A", "B", "C", "D", "E", "F", "G", "H", "I", "J", "K", "L", "M",
     "N", "O", "P", "Q", "R", "S", "T", "U", "V", "W", "X", "Y", "Z"}
\* [-._;()/:\w]
DoiSuffixChars == {"-", ".", "_", ";", "(", ")", "/", ":"} \cup Letters \cup Digits

\* the length of the longest run of characters of class cs in s from index i
RECURSIVE RunLength(_, _, _)
RunLength(s, i, cs) ==
    IF i > Len(s) \/ s[i] \notin cs THEN 0 ELSE 1 + RunLength(s, i + 1, cs)

\* the length of the match of the pattern at index i, 0 when it does not match
\* there: "10.", then the whole digit run (4 to 9 digits, since "/" must
\* follow it), "/", then the longest non-empty run of suffix characters
DoiMatchLength(s, i) ==
    LET n == RunLength(s, i + 3, Digits)
        m == RunLength(s, i + 4 + n, DoiSuffixChars)
    IN  IF /\ StartsAt(s, <<"1", "0", ".">>, i)
           /\ n >= 4 /\ n <= 9
           /\ i + 3 + n <= Len(s)
           /\ s[i + 3 + n] = "/"
           /\ m >= 1
        THEN 3 + n + 1 + m
        ELSE 0

\* re.search(doi_pattern, text).group(0): the leftmost match, <<>> when none
RECURSIVE DoiSearchFrom(_, _)
DoiSearchFrom(s, i) ==
    IF i > Len(s) THEN <<>>
    ELSE IF DoiMatchLength(s, i) > 0 THEN SubSeq(s, i, i + DoiMatchLength(s, i) - 1)
    ELSE DoiSearchFrom(s, i + 1)

DoiSearch(s) == DoiSearchFrom(s, 1)

-----------------------------------------------------------------------------
(* AIAgent._find_papers: the authors parsed from the query *)

RECURSIVE Join(_, _)
Join(parts, sep) ==
    IF Len(parts) = 1 THEN parts[1]
    ELSE parts[1] \o sep \o Join(Tail(parts), sep)

\* str.replace(old, new)
ReplaceAll(s, old, new) == Join(SplitOn(s, old), new)

ParseAuthors(query) ==
    LET parts == SplitOn(ReplaceAll(ReplaceAll(query, <<" ", "a", "n", "d", " ">>, <<",">>),
                                    <<"&">>, <<",">>),
                         <<",">>)
        author == [i \in DOMAIN parts |->
                      ReplaceAll(ReplaceAll(ReplaceAll(Strip(parts[i]),
                                                       <<"b", "y", " ">>, <<>>),
                                            <<"f", "r", "o", "m", " ">>, <<>>),
                                 <<"a", "u", "t", "h", "o", "r", " ">>, <<>>)]
    IN  SelectSeq(author, LAMBDA a : a # <<>>)

-----------------------------------------------------------------------------
(* AIAgent.process_query *)

ActFindPapers == <<"f", "i", "n", "d", "_", "p", "a", "p", "e", "r", "s">>
ActSummarizePaper ==
    <<"s", "u", "m", "m", "a", "r", "i", "z", "e", "_", "p", "a", "p", "e", "r">>
ActGenerateImage ==
    <<"g", "e", "n", "e", "r", "a", "t", "e", "_", "i", "m", "a", "g", "e">>
ActUnknown == <<"u", "n", "k", "n", "o", "w", "n">>

\* the replies, each named by the text it starts with
MsgNotSure == "I'm not sure what you want to do. You can ask me to: ..."
MsgTrouble == "I had trouble understanding your request. Please try again with a clearer query."
MsgError == "An error occurred: ..."
MsgNoValidDoi == "No valid DOI found in the query."
MsgCouldNotFetch == "Could not fetch paper data for the given DOI."
MsgSummary == "(the generated summary)"
MsgSummaryError == "Error generating summary"
MsgImageOk == "Image generated successfully. Prompt used: ..."
MsgImageFailed == "Failed to generate image for the paper."
MsgNoPapers == "No papers found for authors ..."
MsgFound == "Found n papers for authors: ..."
MsgPending == "(search running)"

\* dict.get(key, default)
Get(d, key, default) == IF key \in DOMAIN d.fields THEN d.fields[key] ELSE default

\* the argument of _summarize_paper / _generate_image, mutated: the last
\* paper is never substituted
ChosenQueryNoLast(use_last_paper, last, query) == query

\* if use_last_paper and self.last_paper_doi: ...(self.last_paper_doi)
\* ...(query)
ChosenQuery(use_last_paper, last, query) ==
    IF Truthy(use_last_paper) /\ Truthy(last) THEN last ELSE query

Route(name, query) == [route |-> name, query |-> query]

\* Where process_query goes for a classifier response: "error" is the outer
\* except (the API call failed, or an attribute or type error), "trouble" the
\* JSONDecodeError handler, "notsure" the else branch of the dispatch.
Dispatch(response, last) ==
    IF response.kind = "api_error" THEN Route("error", PyNone)
    ELSE IF response.kind = "not_json" THEN Route("trouble", PyNone)
    ELSE LET result == response.value
         IN  IF result.type # "dict" THEN Route("error", PyNone)
             ELSE LET action == Get(result, "action", PyNone)
                      params == Get(result, "params", EmptyDict)
                  IN  IF params.type # "dict" THEN Route("error", PyNone)
                      ELSE LET query == Get(params, "query", PyStr(<<>>))
                               use_last_paper ==
                                   Get(params, "use_last_paper", PyBool(FALSE))
                           IN  IF action = PyStr(ActFindPapers)
                               THEN Route("find", query)
                               ELSE IF action = PyStr(ActSummarizePaper)
                               THEN Route("summarize",
                                          ChosenQuery(use_last_paper, last, query))
                               ELSE IF action = PyStr(ActGenerateImage)
                               THEN Route("image",
                                          ChosenQuery(use_last_paper, last, query))
                               ELSE Route("notsure", PyNone)

\* _summarize_paper(query) and _generate_image(query): the requests made and
\* the reply. outcome is what the collaborators do: "no_data" (the detail
\* fetch yields {}), "ok", "failed" (the model call fails, no image path).
PaperAction(route, query, outcome) ==
    IF query.type # "str" THEN [effects |-> <<>>, reply |-> MsgError]
    ELSE LET doi == DoiSearch(query.s)
             fetch == [op |-> "get_paper_by_doi", doi |-> doi]
         IN  IF doi = <<>> THEN [effects |-> <<>>, reply |-> MsgNoValidDoi]
             ELSE IF outcome = "no_data"
             THEN [effects |-> <<fetch>>, reply |-> MsgCouldNotFetch]
             ELSE IF route = "summarize"
             THEN [effects |-> <<fetch, [op |-> "summarize_paper", doi |-> doi]>>,
                   reply |-> IF outcome = "ok" THEN MsgSummary ELSE MsgSummaryError]
             ELSE [effects |-> <<fetch, [op |-> "generate_image", doi |-> doi]>>,
                   reply |-> IF outcome = "ok" THEN MsgImageOk ELSE MsgImageFailed]

Outcomes == {"no_data", "ok", "failed"}

\* process_query(query) up to its return, or up to the call of
\* search_authors_with_cursor inside _find_papers
ProcessQuery(response, outcome) ==
    /\ apc = "idle"
    /\ wpc = "idle"
    /\ ncalls < MaxQueries
    /\ ncalls' = ncalls + 1
    /\ LET d == Dispatch(response, last_paper_doi)
           base == [response |-> response, last_before |-> last_paper_doi,
                    effects |-> <<>>, reply |-> MsgPending]
       IN  IF d.route = "find" /\ d.query.type = "str"
           THEN /\ BeginWalk(ParseAuthors(d.query.s), DefaultMaxCursor)
                /\ nsearch' = nsearch + 1
                /\ apc' = "finding"
                /\ turn' = [base EXCEPT !.effects =
                               <<[op |-> "search", targets |-> ParseAuthors(d.query.s)]>>]
           ELSE /\ turn' =
                     (IF d.route \in {"summarize", "image"}
                      THEN LET r == PaperAction(d.route, d.query, outcome)
                           IN  [base EXCEPT !.effects = r.effects, !.reply = r.reply]
                      ELSE [base EXCEPT !.reply =
                               CASE d.route = "trouble" -> MsgTrouble
                                 [] d.route = "notsure" -> MsgNotSure
                                 [] OTHER -> MsgError])
                /\ UNCHANGED <<walkVars, apc, nsearch>>
    /\ UNCHANGED <<logVars, last_paper_doi, summaries, sideVars>>

\* _find_papers after search_authors_with_cursor has returned
FinishFind ==
    /\ apc = "finding"
    /\ wpc = "idle"
    /\ apc' = "idle"
    /\ last_paper_doi' = IF results # <<>> THEN PyStr(results[1].doi) ELSE last_paper_doi
    /\ turn' = [turn EXCEPT !.reply = IF results # <<>> THEN MsgFound ELSE MsgNoPapers]
    /\ UNCHANGED <<walkVars, logVars, summaries, nsearch, ncalls, sideVars>>

\* what the classifier may answer
Params(f) == PyDict(f)
Doi2Text == <<"s", "e", "e", " ", "1", "0", ".", "1", "1", "0", "1", "/", "b", " ", "n", "o",
              "w">>
ThisPaper == <<"t", "h", "i", "s", " ", "p", "a", "p", "e", "r">>

\* a query in the form of the prompt's own example, 'Schulz, F., Shrestha, B.'
QueryLastInitial ==
    <<"A", "b", ",", " ", "C", ".", ",", " ", "D", "e", ",", " ", "F", ".">>

AgentResponses ==
    { [kind |-> "api_error"],
      [kind |-> "not_json"],
      [kind |-> "json", value |-> PyList],
      [kind |-> "json", value |-> EmptyDict],
      [kind |-> "json", value |-> PyDict([action |-> PyStr(ActFindPapers)])],
      [kind |-> "json", value |->
          PyDict([action |-> PyStr(ActSummarizePaper), params |-> PyNone])],
      [kind |-> "json", value |->
          PyDict([action |-> PyStr(ActSummarizePaper),
                  params |-> Params([use_last_paper |-> PyBool(TRUE)])])],
      [kind |-> "json", value |->
          PyDict([action |-> PyStr(ActFindPapers),
                  params |-> Params([query |-> PyStr(<<"A", "b">>),
                                     use_last_paper |-> PyBool(FALSE)])])],
      [kind |-> "json", value |->
          PyDict([action |-> PyStr(ActFindPapers),
                  params |-> Params([query |->
                                        PyStr(<<"b", "y", " ", "C", "d", " ", "a", "n", "d",
                                                " ", "a", "b">>),
                                     use_last_paper |-> PyBool(FALSE)])])],
      [kind |-> "json", value |->
          PyDict([action |-> PyStr(ActFindPapers),
                  params |-> Params([query |-> PyStr(QueryLastInitial),
                                     use_last_paper |-> PyBool(FALSE)])])],
      [kind |-> "json", value |->
          PyDict([action |-> PyStr(ActSummarizePaper),
                  params |-> Params([query |-> PyStr(<<>>),
                                     use_last_paper |-> PyBool(TRUE)])])],
      [kind |-> "json", value |->
          PyDict([action |-> PyStr(ActSummarizePaper),
                  params |-> Params([query |-> PyStr(Doi2),
                                     use_last_paper |-> PyBool(FALSE)])])],
      [kind |-> "json", value |->
          PyDict([action |-> PyStr(ActSummarizePaper),
                  params |-> Params([query |-> PyStr(Doi2),
                                     use_last_paper |-> PyBool(TRUE)])])],
      [kind |-> "json", value |->
          PyDict([action |-> PyStr(ActGenerateImage),
                  params |-> Params([query |-> PyStr(ThisPaper),
                                     use_last_paper |-> PyBool(TRUE)])])],
      [kind |-> "json", value |->
          PyDict([action |-> PyStr(ActGenerateImage),
                  params |-> Params([query |-> PyStr(Doi2Text),
                                     use_last_paper |-> PyBool(FALSE)])])],
      [kind |-> "json", value |->
          PyDict([action |-> PyStr(ActUnknown),
                  params |-> Params([query |-> PyStr(<<"h", "i">>),
                                     use_last_paper |-> PyBool(FALSE)])])] }

AgentPages ==
    { [ok |-> TRUE, collection |-> <<>>],
      [ok |-> TRUE, collection |-> <<RecA>>],
      [ok |-> TRUE, collection |-> <<RecB>>] }

NextAgent ==
    \/ \E response \in AgentResponses : \E outcome \in Outcomes :
          ProcessQuery(response, outcome)
    \/ \E answer \in AgentPages : FetchPage(answer)
    \/ ReturnResults
    \/ FinishFind

SpecAgent == Init /\ [][NextAgent]_vars

-----------------------------------------------------------------------------
(* Claims about the intent router (SpecAgent), stated on the latest turn. *)

TurnIsObject == turn.response.kind = "json" /\ turn.response.value.type = "dict"
TurnHas(key) == TurnIsObject /\ key \in DOMAIN turn.response.value.fields
TurnAction == turn.response.value.fields["action"]
TurnParams == turn.response.value.fields["params"]
TurnParamsHas(key) ==
    TurnHas("params") /\ TurnParams.type = "dict" /\ key \in DOMAIN TurnParams.fields

\* the turn asks to summarize or to draw, with these parameters present
TurnOnPaper ==
    /\ TurnHas("action")
    /\ TurnAction \in {PyStr(ActSummarizePaper), PyStr(ActGenerateImage)}
    /\ TurnParamsHas("query")
    /\ TurnParams.fields["query"].type = "str"

TurnQuery == TurnParams.fields["query"].s

TurnUsesLast ==
    /\ TurnParamsHas("use_last_paper")
    /\ TurnParams.fields["use_last_paper"] = PyBool(TRUE)

\* the turn made its detail request for this identifier
RanOn(doi) ==
    /\ turn.effects # <<>>
    /\ turn.effects[1] = [op |-> "get_paper_by_doi", doi |-> doi]

\* C8: with lastPaperId set, a summarize_paper or generate_image response with
\* use_last_paper true and a query holding no identifier runs on lastPaperId
\* and is not answered 'No valid DOI found in the query.'
C8_CarryForward ==
    (/\ TurnOnPaper
     /\ TurnUsesLast
     /\ DoiSearch(TurnQuery) = <<>>
     /\ turn.last_before.type = "str")
    => (RanOn(turn.last_before.s) /\ turn.reply # MsgNoValidDoi)

\* C8's case: after a search that found papers, "this paper" with
\* use_last_paper true has been handled and the detail request was made.
C8_Witness ==
    /\ TurnOnPaper
    /\ TurnUsesLast
    /\ TurnQuery = ThisPaper
    /\ turn.last_before.type = "str"
    /\ RanOn(turn.last_before.s)

\* C9: a summarize_paper or generate_image response whose query holds a DOI
\* runs on that DOI, whatever use_last_paper and lastPaperId are.
C9_ExplicitDoiWins ==
    (TurnOnPaper /\ DoiSearch(TurnQuery) # <<>>) => RanOn(DoiSearch(TurnQuery))

\* the response is no JSON, no JSON object, or lacks action, params or
\* params.query
TurnMalformed ==
    /\ turn.response.kind \in {"not_json", "json"}
    /\ ~(TurnHas("action") /\ TurnParamsHas("query"))

\* C10: a malformed classifier response makes no search, summary or image
\* request and ends in a message that reports the problem (the generic
\* 'An error occurred' reply is counted as one here).
C10_MalformedHandled ==
    TurnMalformed =>
        /\ turn.effects = <<>>
        /\ turn.reply \in {MsgTrouble, MsgNotSure, MsgError}

\* the turn was a search, and it has returned
TurnSearched ==
    /\ apc = "idle"
    /\ turn.effects # <<>>
    /\ turn.effects[1].op = "search"

\* C19: after a handled query lastPaperId is the identifier discovered or
\* discussed last: the first paper of the search when the query was a search
\* that found papers, the DOI of the query when the query was a summarize or
\* image request that ran on a DOI written in it.
C19_LastIsMostRecent ==
    /\ (TurnSearched /\ results # <<>>) => last_paper_doi = PyStr(results[1].doi)
    /\ (/\ TurnOnPaper
        /\ DoiSearch(TurnQuery) # <<>>
        /\ RanOn(DoiSearch(TurnQuery)))
       => last_paper_doi = PyStr(DoiSearch(TurnQuery))

-----------------------------------------------------------------------------
(* The file name of an image prompt, as PaperImageGenerator.generate_image   *)
(* writes it and as BlueskyPoster.find_image_prompt looks it up.             *)

MaxImages == 1

\* \w, for the characters of the model
IsWord(c) == c \in Letters \cup Digits \cup {"_"}

\* re.sub(r'[^\w\s-]', '', s)
RemoveUnsafe(s) == SelectSeq(s, LAMBDA c : IsWord(c) \/ IsSpace(c) \/ c = "-")

\* re.sub(r'[-\s]+', '_', s): every maximal run of hyphens and whitespace
\* becomes one underscore
RECURSIVE CollapseRuns(_)
CollapseRuns(s) ==
    IF s = <<>> THEN <<>>
    ELSE LET n == RunLength(s, 1, {"-", " ", "\n", "\t"})
         IN  IF n = 0 THEN <<Head(s)>> \o CollapseRuns(Tail(s))
             ELSE <<"_">> \o CollapseRuns(SubSeq(s, n + 1, Len(s)))

\* str.strip(chars)
StripChars(s, chars) ==
    LET keep == {i \in 1..Len(s) : s[i] \notin chars}
    IN  IF keep = {} THEN <<>> ELSE SubSeq(s, Min(keep), Max(keep))

\* s[:n], n >= 0
Take(s, n) == SubSeq(s, 1, Min({n, Len(s)}))

SlugLen == 50
PngSuffix == <<".", "p", "n", "g">>
TxtSuffix == <<".", "t", "x", "t">>

\* generate_image: safe_title, then the name of the file that is written
GeneratorSafeTitle(title) ==
    StripChars(CollapseRuns(RemoveUnsafe(title)), {"-", "_"})

GeneratorFile(title) ==
    LET image_path == Take(GeneratorSafeTitle(title), SlugLen) \o PngSuffix
    IN  ReplaceAll(image_path, PngSuffix, TxtSuffix)

\* find_image_prompt's safe_title, mutated: no .strip('-_')
PosterSafeTitleNoStrip(title) == CollapseRuns(RemoveUnsafe(title))

\* find_image_prompt: safe_title, then the name of the file that is looked up
PosterSafeTitle(title) ==
    StripChars(CollapseRuns(RemoveUnsafe(title)), {"-", "_"})

PosterFile(title) == Take(PosterSafeTitle(title), SlugLen) \o TxtSuffix

\* find_image_prompt(title), given the files of the directory
find_image_prompt(title, files) ==
    [called |-> TRUE, title |-> title, file |-> PosterFile(title),
     found |-> \E f \in files : f.file = PosterFile(title)]

\* Titles: nothing or 49 letters, followed by up to two characters of the
\* classes the two patterns tell apart.
LongWord(n) == [i \in 1..n |-> "a"]
TitleTails ==
    { <<>>, <<"b">>, <<" ">>, <<"-">>, <<"_">>, <<"!">>,
      <<" ", "b">>, <<"b", " ">>, <<"-", " ">>, <<"!", "b">>, <<"_", "b">>,
      <<"b", "!">> }
SlugTitles == {LongWord(n) \o t : n \in {0, 49}, t \in TitleTails}

\* generate_image(prompt, title): the prompt file is written; the entry keeps
\* the title the file's first line names
GenerateImage(title) ==
    /\ Cardinality(prompt_files) < MaxImages
    /\ ncalls < MaxCalls
    /\ ncalls' = ncalls + 1
    /\ prompt_files' = prompt_files \cup {[file |-> GeneratorFile(title), title |-> title]}
    /\ UNCHANGED <<walkVars, logVars, agentVars, summaries, nsearch, posterVars,
                   summarizerVars, callVars, image_prompt>>

\* find_image_prompt(title)
FindImagePrompt(title) ==
    /\ ncalls < MaxCalls
    /\ ncalls' = ncalls + 1
    /\ image_prompt' = find_image_prompt(title, prompt_files)
    /\ UNCHANGED <<walkVars, logVars, agentVars, summaries, nsearch, posterVars,
                   summarizerVars, callVars, prompt_files>>

NextSlug ==
    \/ \E title \in SlugTitles : GenerateImage(title)
    \/ \E title \in SlugTitles : FindImagePrompt(title)

SpecSlug == Init /\ [][NextSlug]_vars

\* C17: the file find_image_prompt looks up for a title is the file
\* generate_image wrote for that title, the name is the same for every call
\* with that title, and its stem is at most 50 characters long.
C17_SlugAgreement ==
    \A g \in prompt_files :
        /\ Len(g.file) <= 50 + Len(TxtSuffix)
        /\ \A h \in prompt_files : h.title = g.title => h.file = g.file
        /\ (image_prompt.called /\ image_prompt.title = g.title) =>
              (image_prompt.file = g.file /\ Len(image_prompt.file) <= 50 + Len(TxtSuffix))

\* C17's case: a title of 51 characters whose safe title is cut at 50, so
\* that the stem ends in an underscore a strip would have removed, was stored
\* and then looked up, and found.
C17_Witness ==
    /\ image_prompt.called
    /\ image_prompt.found
    /\ Len(image_prompt.title) > 50
    /\ Len(image_prompt.file) = 50 + Len(TxtSuffix)
    /\ image_prompt.file[50] = "_"
    /\ \E g \in prompt_files : g.title = image_prompt.title

-----------------------------------------------------------------------------
(* One run of post_to_bluesky.py: main() constructs a BlueskyPoster, which   *)
(* logs in, and calls process_summaries.                                     *)

\* a or b, on Python values
OrElse(a, b) == IF Truthy(a) THEN a ELSE b

\* if not self.handle or not self.password, mutated: the password is not tested
MissingCredentialsHandleOnly(handle, password) == ~Truthy(handle)

\* if not self.handle or not self.password: raise ValueError
MissingCredentials(handle, password) == ~Truthy(handle) \/ ~Truthy(password)

\* what client.login does: it returns, or raises an AtProtocolError, or
\* raises something else
LoginOutcomes == {"ok", "AtProtocolError", "other"}

\* the login exception handling, mutated: the failure is swallowed
LoginRaisesNever(login) == FALSE

\* except AtProtocolError: print; raise  (any other exception propagates too)
LoginRaises(login) == login # "ok"

ErrCredentials == "Error: Bluesky credentials not provided. ..."
ErrFailedLogin == "Failed to login to Bluesky: ..."
ErrMain == "Error: ..."
NoSummariesFound == "No summaries found in the log file"
PostedOk == "Successfully posted summary for: ..."
PostedFailed == "Failed to post summary for: ..."

\* the --handle and --password arguments and the two environment variables
Handle == PyStr(<<"h">>)
Password == PyStr(<<"p">>)
CredentialInputs ==
    { [handle |-> PyNone, password |-> PyNone, env_handle |-> PyNone, env_password |-> PyNone],
      [handle |-> Handle, password |-> PyNone, env_handle |-> PyNone, env_password |-> PyNone],
      [handle |-> PyNone, password |-> Password, env_handle |-> PyNone, env_password |-> PyNone],
      [handle |-> PyNone, password |-> PyNone, env_handle |-> Handle, env_password |-> PyNone],
      [handle |-> PyStr(<<>>), password |-> Password, env_handle |-> PyStr(<<>>),
       env_password |-> PyNone],
      [handle |-> Handle, password |-> Password, env_handle |-> PyNone, env_password |-> PyNone],
      [handle |-> PyNone, password |-> PyNone, env_handle |-> Handle, env_password |-> Password],
      [handle |-> Handle, password |-> PyStr(<<>>), env_handle |-> PyNone,
       env_password |-> Password] }

\* BlueskyPoster(...) in main(): __init__ resolves the credentials, raises
\* ValueError when one is missing, else logs in; main() prints what was raised.
NewPoster(given, login) ==
    /\ ppc = "start"
    /\ LET handle == OrElse(given.handle, given.env_handle)
           password == OrElse(given.password, given.env_password)
       IN  /\ creds' = [given |-> given, handle |-> handle, password |-> password]
           /\ IF MissingCredentials(handle, password)
              THEN /\ ppc' = "failed"
                   /\ report' = Append(report, ErrCredentials)
                   /\ UNCHANGED net
              ELSE /\ net' = Append(net, [op |-> "login", ok |-> login = "ok"])
                   /\ IF LoginRaises(login)
                      THEN /\ ppc' = "failed"
                           /\ report' =
                                 report \o (IF login = "AtProtocolError"
                                            THEN <<ErrFailedLogin>> ELSE <<>>)
                                        \o <<ErrMain>>
                      ELSE /\ ppc' = "ready"
                           /\ UNCHANGED report
    /\ UNCHANGED <<walkVars, logVars, agentVars, summaries, nsearch, ncalls,
                   summary_file, posts, max_posts, post_i, slugVars, summarizerVars, callVars>>

\* summaries[:max_posts]
PySliceTo(s, m) ==
    IF m >= 0 THEN SubSeq(s, 1, Min({m, Len(s)}))
    ELSE SubSeq(s, 1, Max({0, Len(s) + m}))

BooksEmoji == <<"U+1F4DA">>
AlertPrefix ==
    <<" ", "N", "e", "w", " ", "P", "a", "p", "e", "r", " ", "A", "l", "e", "r", "t",
      ":", " ">>
PostAuthors == <<"A", "u", "t", "h", "o", "r", "s", ":", " ">>
PostSummary == <<"S", "u", "m", "m", "a", "r", "y", ":", " ">>
PostDoi == <<"D", "O", "I", ":", " ">>
HashTags ==
    <<"#", "S", "c", "i", "e", "n", "c", "e", " ", "#", "R", "e", "s", "e", "a", "r",
      "c", "h">>

\* format_post(paper)
format_post(paper) ==
    BooksEmoji \o AlertPrefix \o paper.title \o NL \o NL
    \o PostAuthors \o paper.authors \o NL \o NL
    \o PostSummary \o paper.summary \o NL \o NL
    \o PostDoi \o paper.doi \o NL \o NL
    \o HashTags

\* What post_to_bluesky meets: the post is sent; send_post raises; or building
\* the record raises before anything is sent. It returns True in the first
\* case only.
PostOutcomes == {"ok", "rejected", "invalid"}

post_to_bluesky(text, outcome) ==
    [op |-> "post_to_bluesky", text |-> text, sent |-> outcome # "invalid",
     ok |-> outcome = "ok"]

\* time.sleep(5)
Sleep == [op |-> "sleep", seconds |-> 5]

\* if i < len(summaries) - 1, mutated: a pause after every post
NeedsPauseAlways(i, n) == TRUE

\* if i < len(summaries) - 1
NeedsPause(i, n) == i < n - 1

\* the loop after one record, mutated: a failed post ends the batch
AfterPostStopOnFailure(success, i, n) ==
    IF success /\ i + 1 < n THEN "posting" ELSE "done"

\* for i, paper in enumerate(summaries): success is only printed, the loop
\* goes on to the next record
AfterPost(success, i, n) == IF i + 1 < n THEN "posting" ELSE "done"

\* the blocks a summary file is made of
BlockFull ==
    <<"\n", "T", "i", "t", "l", "e", ":", " ", "F", "o", "\n", "D", "O", "I", ":", " ",
      "1", "0", ".", "1", "1", "0", "1", "/", "a", "\n", "A", "u", "t", "h", "o", "r",
      "s", ":", " ", "A", "b", "\n", "S", "u", "m", "m", "a", "r", "y", ":", "\n", "s",
      "1", "\n">>
BlockBare ==
    <<"\n", "T", "i", "t", "l", "e", ":", " ", "B", "a", " ", "\n", "S", "u", "m", "m",
      "a", "r", "y", ":", "\n", "s", "2", "\n", "\n", "m", "o", "r", "e", "\n">>
BlockNoSummary ==
    <<"\n", "T", "i", "t", "l", "e", ":", " ", "Q", "u", "\n", "D", "O", "I", ":", " ",
      "1", "0", ".", "1", "1", "0", "1", "/", "b", "\n">>
BlockBlank == <<"\n", " ", "\n">>
BlockOdd ==
    <<"T", "i", "t", "l", "e", ":", " ", "\n", "T", "i", "t", "l", "e", ":", " ", "Z",
      "z", "\n", "M", "a", "t", "c", "h", "i", "n", "g", " ", "A", "u", "t", "h", "o",
      "r", "s", ":", " ", "C", "d", "\n", "S", "u", "m", "m", "a", "r", "y", ":", "\n",
      "s", "3">>
BlockEmptySummary ==
    <<"D", "O", "I", ":", " ", "1", "0", ".", "1", "1", "0", "1", "/", "c", "\n", "S",
      "u", "m", "m", "a", "r", "y", ":", "\n", "\n", "\n", "s", "4">>

\* a block as PaperSummarizer.process_log_file prints it between two lines of
\* 80 '=': the values stand on the line after their label, and the split on
\* 50 '=' leaves 30 '=' in front
PrintedDelimLen == 80
PrintedBody ==
    <<"\n", "T", "i", "t", "l", "e", ":", " ", "F", "o", "\n", "\n", "D", "O", "I",
      ":", " ", "\n", "1", "0", ".", "1", "1", "0", "1", "/", "a", "\n", "\n", "A",
      "u", "t", "h", "o", "r", "s", ":", " ", "\n", "A", "b", "\n", "\n", "S", "u",
      "m", "m", "a", "r", "y", ":", "\n", "s", "1", "\n">>
BlockPrinted == [i \in 1..(PrintedDelimLen - DelimLen) |-> "="] \o PrintedBody

Blocks ==
    {BlockFull, BlockBare, BlockNoSummary, BlockBlank, BlockOdd, BlockEmptySummary,
     BlockPrinted}

FileOf(blocks) == [exists |-> TRUE, content |-> Join(blocks, Delim)]

\* the summary file: missing, or up to two blocks, or one of two longer files
SummaryFiles ==
    {[exists |-> FALSE, content |-> <<>>], [exists |-> TRUE, content |-> <<>>]}
    \cup {FileOf(<<b>>) : b \in Blocks}
    \cup {FileOf(<<b, c>>) : b, c \in Blocks}
    \cup {FileOf(<<BlockFull, BlockNoSummary, BlockBare, BlockOdd>>),
          FileOf(<<BlockBlank, BlockOdd, BlockFull, BlockBare>>)}

\* the --max-posts argument
MaxPostsChoices == {-1, 0, 1, 2, 5}

\* process_summaries(max_posts) up to the loop
ProcessSummaries(file, m) ==
    /\ ppc = "ready"
    /\ summary_file' = file
    /\ max_posts' = m
    /\ summaries' = extract_summaries_from_log(file)
    /\ post_i' = 0
    /\ IF summaries' = <<>>
       THEN /\ report' = Append(report, NoSummariesFound)
            /\ posts' = <<>>
            /\ ppc' = "done"
       ELSE /\ posts' = PySliceTo(summaries', m)
            /\ ppc' = IF posts' = <<>> THEN "done" ELSE "posting"
            /\ UNCHANGED report
    /\ UNCHANGED <<walkVars, logVars, agentVars, nsearch, ncalls, creds, net,
                   slugVars, summarizerVars, callVars>>

\* one iteration of for i, paper in enumerate(summaries)
PostNext(outcome) ==
    /\ ppc = "posting"
    /\ LET paper == posts[post_i + 1]
           attempt == post_to_bluesky(format_post(paper), outcome)
       IN  /\ image_prompt' = find_image_prompt(paper.title, prompt_files)
           /\ net' = Append(net, attempt)
                     \o (IF NeedsPause(post_i, Len(posts)) THEN <<Sleep>> ELSE <<>>)
           /\ report' = Append(report, IF attempt.ok THEN PostedOk ELSE PostedFailed)
           /\ ppc' = AfterPost(attempt.ok, post_i, Len(posts))
    /\ post_i' = post_i + 1
    /\ UNCHANGED <<walkVars, logVars, agentVars, summaries, nsearch, ncalls, creds,
                   summary_file, posts, max_posts, prompt_files, summarizerVars, callVars>>

NextPost ==
    \/ \E given \in CredentialInputs, login \in LoginOutcomes : NewPoster(given, login)
    \/ \E file \in SummaryFiles, m \in MaxPostsChoices : ProcessSummaries(file, m)
    \/ \E outcome \in PostOutcomes : PostNext(outcome)

SpecPost == Init /\ [][NextPost]_vars

-----------------------------------------------------------------------------
(* Claims about the poster run (SpecPost). *)

LoginOk == [op |-> "login", ok |-> TRUE]

\* the publish attempts of the run, in order
Attempts == SelectSeq(net, LAMBDA e : e.op = "post_to_bluesky")

\* C11: every publish attempt of the run comes after a successful login, and
\* after a failed login the run has ended with a printed error and without
\* any publish attempt.
C11_LoginBeforePublish ==
    /\ \A k \in DOMAIN net :
          net[k].op = "post_to_bluesky" => \E j \in 1..(k - 1) : net[j] = LoginOk
    /\ (\E k \in DOMAIN net : net[k].op = "login" /\ ~net[k].ok)
          => (/\ ppc = "failed"
              /\ \E k \in DOMAIN report : report[k] = ErrMain
              /\ Attempts = <<>>)

\* C11's case: the run has logged in and has sent a post.
C11_Witness ==
    /\ ppc = "done"
    /\ net[1] = LoginOk
    /\ \E k \in DOMAIN Attempts : Attempts[k].sent

\* neither passed as a parameter nor set in the environment
Absent(arg, env) == arg = PyNone /\ env = PyNone

\* C12: when the handle or the password is absent, the construction of the
\* poster ends in the credentials error and the run makes no login and no
\* publish attempt.
C12_ConfigFailFast ==
    (/\ ppc # "start"
     /\ \/ Absent(creds.given.handle, creds.given.env_handle)
        \/ Absent(creds.given.password, creds.given.env_password))
    => (ppc = "failed" /\ net = <<>> /\ report = <<ErrCredentials>>)

\* C12's case: a handle was passed, the password is absent, and the run has
\* ended.
C12_Witness ==
    /\ ppc = "failed"
    /\ creds.given.handle = Handle
    /\ Absent(creds.given.password, creds.given.env_password)

\* C13: a finished process_summaries(max_posts = m), m >= 0, over n parsed
\* records has made one publish attempt for each of the first min(n, m)
\* records, in order, with one pause between two consecutive attempts and
\* none after the last.
C13_FirstMinPosts ==
    (ppc = "done" /\ max_posts >= 0) =>
        LET a == Min({Len(summaries), max_posts})
            after == Tail(net)
        IN  /\ Len(Attempts) = a
            /\ \A k \in 1..a : Attempts[k].text = format_post(summaries[k])
            /\ Len(after) = IF a = 0 THEN 0 ELSE 2 * a - 1
            /\ \A k \in DOMAIN after : (after[k] = Sleep) <=> (k % 2 = 0)

\* C13's case: three records parsed, max_posts = 2, two attempts made of
\* which the first failed.
C13_Witness ==
    /\ ppc = "done"
    /\ Len(summaries) = 3
    /\ max_posts = 2
    /\ Len(Attempts) = 2
    /\ ~Attempts[1].ok

\* the indices at which the label stands in the block
LabelAt(block, label) == {p \in 1..Len(block) : StartsAt(block, label, p)}

\* the text between the first occurrence of the label and the end of its line
LineValue(block, label) ==
    LET from == Min(LabelAt(block, label)) + Len(label)
        end == Min({q \in from..(Len(block) + 1) :
                       q = Len(block) + 1 \/ block[q] = "\n"})
    IN  Strip(SubSeq(block, from, end - 1))

FieldOf(block, label, sentinel) ==
    IF LabelAt(block, label) = {} THEN sentinel ELSE LineValue(block, label)

\* the text between the first 'Summary:' line and the next blank line
SummaryParagraph(block) ==
    LET from == Min(LabelAt(block, SummaryLabel)) + Len(SummaryLabel)
        end == Min({q \in from..(Len(block) + 1) :
                       \/ q = Len(block) + 1
                       \/ (q < Len(block) /\ block[q] = "\n" /\ block[q + 1] = "\n")})
    IN  Strip(SubSeq(block, from, end - 1))

HasSummaryText(block) ==
    LabelAt(block, SummaryLabel) # {} /\ SummaryParagraph(block) # <<>>

-----------------------------------------------------------------------------
(* PaperSummarizer.process_log_file over the notification log. *)

\* re.findall(r'DOI: (10\.\d{4,9}/[-._;()/:\w]+)', content): group 1 of the
\* non-overlapping matches, left to right
RECURSIVE FindAllDois(_, _)
FindAllDois(s, i) ==
    LET label == Find(s, DoiPrefix, i)
        at == label + Len(DoiPrefix)
        n == DoiMatchLength(s, at)
    IN  IF label = 0 THEN <<>>
        ELSE IF n > 0
        THEN <<SubSeq(s, at, at + n - 1)>> \o FindAllDois(s, at + n)
        ELSE FindAllDois(s, label + 1)

\* What the detail request for a DOI meets: requests raises (transport or
\* status), the body has an empty collection, or a record comes back; in the
\* last case the model call of summarize_paper works or fails.
FetchOutcomes == {"request_error", "empty", "ok", "ok_model_fails"}

\* get_paper_by_doi(doi): {} on every failure, else the extracted data
get_paper_by_doi(doi, outcome) ==
    IF outcome \in {"ok", "ok_model_fails"}
    THEN PyDict([doi |-> PyStr(doi)])
    ELSE EmptyDict

\* the loop after one DOI, mutated: a DOI without data ends the batch
AfterDoiStopOnMiss(paper_data, i, n) ==
    IF Truthy(paper_data) /\ i < n THEN "loop" ELSE "done"

\* for doi in dois: the else branch only prints, the loop goes on
AfterDoi(paper_data, i, n) == IF i < n THEN "loop" ELSE "done"

\* a paper whose record carried no doi: the writer logs 'DOI: None'
PaperNoDoi ==
    [doi |-> <<"N", "o", "n", "e">>, title |-> <<"Z", "z">>, date |-> <<"d", "1">>,
     matching_authors |-> <<Author1>>]

SummarizerPaperLists ==
    { <<PaperFo>>,
      <<PaperBa, PaperFoAgain>>,
      <<PaperNoDoi, PaperSpaceFo>> }

\* process_log_file up to the loop
StartSummarizer ==
    /\ spc = "idle"
    /\ wpc = "idle"
    /\ dois' = IF log.exists THEN FindAllDois(log.content, 1) ELSE <<>>
    /\ doi_i' = 1
    /\ spc' = IF dois' = <<>> THEN "done" ELSE "loop"
    /\ detail_fetches' = <<>>
    /\ printed' = <<>>
    /\ UNCHANGED <<walkVars, logVars, agentVars, summaries, nsearch, ncalls,
                   posterVars, slugVars, callVars>>

\* one iteration of for doi in dois
SummarizeNext(outcome) ==
    /\ spc = "loop"
    /\ LET doi == dois[doi_i]
           paper_data == get_paper_by_doi(doi, outcome)
       IN  /\ detail_fetches' =
                 Append(detail_fetches, [doi |-> doi, outcome |-> outcome,
                                         data |-> paper_data])
           /\ printed' =
                 IF Truthy(paper_data)
                 THEN Append(printed,
                             [doi |-> paper_data.fields["doi"].s,
                              summary |-> IF outcome = "ok" THEN MsgSummary
                                          ELSE MsgSummaryError])
                 ELSE printed
           /\ spc' = AfterDoi(paper_data, doi_i, Len(dois))
    /\ doi_i' = doi_i + 1
    /\ UNCHANGED <<walkVars, logVars, agentVars, summaries, nsearch, ncalls,
                   posterVars, slugVars, callVars, dois>>

NextSummarizer ==
    \/ \E papers \in SummarizerPaperLists : spc = "idle" /\ CallLog(papers)
    \/ StartSummarizer
    \/ \E outcome \in FetchOutcomes : SummarizeNext(outcome)

SpecSummarizer == Init /\ [][NextSummarizer]_vars

\* the indices of the log at which 'DOI: ' is followed by a DOI
DoiPositions(content) ==
    {p \in 1..Len(content) :
        StartsAt(content, DoiPrefix, p) /\ DoiMatchLength(content, p + Len(DoiPrefix)) > 0}

\* the k-th smallest element of a set of numbers
RECURSIVE Kth(_, _)
Kth(S, k) == IF k = 1 THEN Min(S) ELSE Kth(S \ {Min(S)}, k - 1)

\* C20: a finished process_log_file has made one detail request for every
\* DOI occurrence of the log, in log order, whatever the earlier requests
\* met, and has printed a summary block for exactly the requests that
\* returned a record.
C20_BadDoiDoesNotAbort ==
    (spc = "done" /\ log.exists) =>
        LET at == DoiPositions(log.content)
        IN  /\ Len(detail_fetches) = Cardinality(at)
            /\ \A k \in DOMAIN detail_fetches :
                  LET p == Kth(at, k) + Len(DoiPrefix)
                  IN  detail_fetches[k].doi =
                          SubSeq(log.content, p, p + DoiMatchLength(log.content, p) - 1)
            /\ printed =
                  LET got == SelectSeq(detail_fetches,
                                       LAMBDA f : f.outcome \in {"ok", "ok_model_fails"})
                  IN  [k \in DOMAIN got |->
                          [doi |-> got[k].doi,
                           summary |-> IF got[k].outcome = "ok" THEN MsgSummary
                                       ELSE MsgSummaryError]]

\* C20's case: a log with three DOI occurrences, two of them the same DOI;
\* the first request failed, the second came back empty, the third returned
\* a record and its summary was printed.
C20_Witness ==
    /\ spc = "done"
    /\ Len(detail_fetches) = 3
    /\ detail_fetches[1].doi = detail_fetches[2].doi
    /\ detail_fetches[1].outcome = "request_error"
    /\ detail_fetches[2].outcome = "empty"
    /\ detail_fetches[3].outcome = "ok"
    /\ Len(printed) = 1

-----------------------------------------------------------------------------
(* Further claims about the poster run (SpecPost). *)

\* C26: whatever post_to_bluesky returned for the earlier records, the loop
\* makes one publish attempt per record of the truncated list, in list
\* order, and it ends only after the last record.
C26_FailedPostContinues ==
    (ppc \in {"posting", "done"}) =>
        /\ Len(Attempts) = post_i
        /\ \A k \in 1..post_i : Attempts[k].text = format_post(posts[k])
        /\ (ppc = "done") => post_i = Len(posts)

\* C26's case: three records; the first post was rejected, the second could
\* not be built, and the third was attempted and sent.
C26_Witness ==
    /\ ppc = "done"
    /\ Len(posts) = 3
    /\ Len(Attempts) = 3
    /\ ~Attempts[1].ok /\ Attempts[1].sent
    /\ ~Attempts[2].ok /\ ~Attempts[2].sent
    /\ Attempts[3].ok

-----------------------------------------------------------------------------
(* Further claims about the notification log (SpecLog). *)

\* the 'Title: ' lines of the log, in file order
TitleLines ==
    IF log.exists
    THEN SelectSeq(SplitOn(log.content, NL), LAMBDA l : StartsAt(l, TitlePrefix, 1))
    ELSE <<>>

\* C24: no two 'Title: ' lines of the log carry the same title.
C24_TitlesUnique ==
    \A i, j \in DOMAIN TitleLines : TitleLines[i] = TitleLines[j] => i = j

-----------------------------------------------------------------------------
(* A further claim about the intent router (SpecAgent). *)

\* the two authors QueryLastInitial names
NamesLastInitial ==
    << <<"A", "b", ",", " ", "C", ".">>, <<"D", "e", ",", " ", "F", ".">> >>

\* C25: a find_papers turn whose query names authors as 'Last, I.' searches
\* for exactly those names, each kept whole.
C25_WholeAuthorNames ==
    (/\ turn # NoTurn
     /\ turn.response.kind = "json"
     /\ Dispatch(turn.response, turn.last_before).route = "find"
     /\ Dispatch(turn.response, turn.last_before).query = PyStr(QueryLastInitial))
        => (/\ Len(turn.effects) = 1
            /\ turn.effects[1].op = "search"
            /\ turn.effects[1].targets = NamesLastInitial)

-----------------------------------------------------------------------------
(* The model calls of PaperSummarizer.summarize_paper and                    *)
(* PaperImageGenerator.generate_image_prompt.                                *)

\* dict.get(key, default)
DictGet(d, key, default) ==
    IF key \in DOMAIN d.fields THEN d.fields[key] ELSE default

ErrorGeneratingSummary ==
    <<"E", "r", "r", "o", "r", " ", "g", "e", "n", "e", "r", "a", "t", "i", "n", "g",
      " ", "s", "u", "m", "m", "a", "r", "y">>
IllustrationOf ==
    <<"S", "c", "i", "e", "n", "t", "i", "f", "i", "c", " ", "i", "l", "l", "u", "s",
      "t", "r", "a", "t", "i", "o", "n", " ", "o", "f", " ">>

\* summarize_paper(paper_data), reply being what chat.completions.create does:
\* it raises, or it returns a message content
summarize_paper(paper_data, reply) ==
    IF reply.ok THEN Strip(reply.content) ELSE ErrorGeneratingSummary

\* generate_image_prompt(paper_data): the except branch formats the title
generate_image_prompt(paper_data, reply) ==
    IF reply.ok THEN Strip(reply.content)
    ELSE IllustrationOf \o DictGet(paper_data, "title", PyStr(UnknownTitle)).s

\* paper details as get_paper_by_doi extracts them
PaperDetails ==
    { PyDict([title |-> PyStr(<<"F", "o">>), abstract |-> PyStr(<<"x">>)]),
      PyDict([title |-> PyStr(<<"B", "a">>), abstract |-> PyStr(<<>>)]),
      PyDict([abstract |-> PyStr(<<"y">>)]) }

ModelReplies ==
    { [ok |-> FALSE, content |-> <<>>],
      [ok |-> TRUE, content |-> <<" ", "s", "\n">>],
      [ok |-> TRUE, content |-> <<"p">>] }

SummarizePaper(paper_data, reply) ==
    /\ Len(model_calls) < MaxCalls
    /\ model_calls' =
          Append(model_calls,
                 [fn |-> "summarize_paper", paper |-> paper_data, reply |-> reply,
                  result |-> summarize_paper(paper_data, reply)])
    /\ UNCHANGED <<walkVars, logVars, agentVars, summaries, nsearch, ncalls,
                   posterVars, slugVars, summarizerVars, writers, overlapped,
                   wrapper_calls>>

GenerateImagePrompt(paper_data, reply) ==
    /\ Len(model_calls) < MaxCalls
    /\ model_calls' =
          Append(model_calls,
                 [fn |-> "generate_image_prompt", paper |-> paper_data, reply |-> reply,
                  result |-> generate_image_prompt(paper_data, reply)])
    /\ UNCHANGED <<walkVars, logVars, agentVars, summaries, nsearch, ncalls,
                   posterVars, slugVars, summarizerVars, writers, overlapped,
                   wrapper_calls>>

NextModelCall ==
    \/ \E paper_data \in PaperDetails : \E reply \in ModelReplies :
          SummarizePaper(paper_data, reply)
    \/ \E paper_data \in PaperDetails : \E reply \in ModelReplies :
          GenerateImagePrompt(paper_data, reply)

SpecModelCall == Init /\ [][NextModelCall]_vars

\* C21: two calls of the same function whose model call failed return the
\* same string, whatever their papers.
C21_FixedSentinel ==
    \A i, j \in DOMAIN model_calls :
        (/\ model_calls[i].fn = model_calls[j].fn
         /\ ~model_calls[i].reply.ok
         /\ ~model_calls[j].reply.ok)
            => model_calls[i].result = model_calls[j].result

-----------------------------------------------------------------------------
(* log_paper_notification when a write raises part-way: a paper dict that    *)
(* lacks a key the record's f-strings read.                                  *)

\* the writes of the loop body for one paper, up to the first one that raises
\* KeyError; 'Matching Authors:' is written before paper['matching_authors']
\* is read
WrittenFor(paper) ==
    LET opening == NL \o Delim \o NL \o TitlePrefix \o paper.title \o NL
                   \o MatchingAuthorsLine
    IN  IF "matching_authors" \notin DOMAIN paper
        THEN [text |-> opening, raised |-> TRUE]
        ELSE IF "date" \notin DOMAIN paper
        THEN [text |-> opening \o AuthorLines(paper.matching_authors), raised |-> TRUE]
        ELSE IF "doi" \notin DOMAIN paper
        THEN [text |-> opening \o AuthorLines(paper.matching_authors)
                       \o DatePrefix \o paper.date \o NL,
              raised |-> TRUE]
        ELSE [text |-> RecordText(paper), raised |-> FALSE]

\* for paper in new_papers, left when a write raises
RECURSIVE WrittenRecords(_)
WrittenRecords(papers) ==
    IF papers = <<>> THEN <<>>
    ELSE LET w == WrittenFor(Head(papers))
         IN  IF w.raised THEN w.text ELSE w.text \o WrittenRecords(Tail(papers))

\* the file after the call: leaving the with block closes the file, so what
\* was written before the exception stays; the except clause only prints
log_paper_notification_raising(file, papers, ts) ==
    IF papers = <<>> THEN file
    ELSE LET new_papers == NewPapers(file, papers)
         IN  IF new_papers = <<>> THEN file
             ELSE OpenAppend(file, HeaderText(ts) \o WrittenRecords(new_papers))

PaperNoDate ==
    [doi |-> Doi2, title |-> <<"N", "d">>, matching_authors |-> <<Author1>>]
PaperNoAuthors ==
    [doi |-> Doi2, title |-> <<"N", "a">>, date |-> <<"d", "2">>]

RaisingPaperLists ==
    { <<PaperNoDate>>,
      <<PaperFo, PaperNoDate>>,
      <<PaperNoAuthors, PaperFo>> }

\* log_paper_notification(papers), called directly with such a list
CallLogRaising(papers) ==
    /\ wpc = "idle"
    /\ ncalls < MaxCalls
    /\ ncalls' = ncalls + 1
    /\ log' = log_paper_notification_raising(log, papers, Timestamp(clock))
    /\ clock' = IF log' # log THEN clock + 1 ELSE clock
    /\ hist' = Append(hist, [papers |-> papers, before |-> log, after |-> log'])
    /\ UNCHANGED <<walkVars, agentVars, summaries, nsearch, sideVars>>

NextLogRaising ==
    \/ NextLog
    \/ \E papers \in RaisingPaperLists : CallLogRaising(papers)

SpecLogRaising == Init /\ [][NextLogRaising]_vars

\* the number of lines of a text that start with a label
LineCount(text, label) ==
    Cardinality({i \in DOMAIN SplitOn(text, NL) : StartsAt(SplitOn(text, NL)[i], label, 1)})

\* what a call appended is one header and, for each of the n new papers, a
\* record with its Title, Matching Authors, Date and DOI lines between two
\* delimiter lines
CompleteAppend(call) ==
    LET old == IF call.before.exists THEN call.before.content ELSE <<>>
        n == Len(NewPapers(call.before, call.papers))
        added == SubSeq(call.after.content, Len(old) + 1, Len(call.after.content))
    IN  /\ IsPrefix(old, call.after.content)
        /\ n > 0
        /\ LineCount(added, SubSeq(HeaderOpen, 3, Len(HeaderOpen))) = 1
        /\ LineCount(added, TitlePrefix) = n
        /\ LineCount(added, SubSeq(MatchingAuthorsLine, 1, Len(MatchingAuthorsLine) - 1)) = n
        /\ LineCount(added, DatePrefix) = n
        /\ LineCount(added, DoiPrefix) = n
        /\ LineCount(added, Delim) = 2 * n

\* C22: every log_paper_notification call either left the log as it was or
\* appended the header and a complete record for every new paper.
C22_AtomicAppend ==
    \A i \in DOMAIN hist :
        hist[i].after = hist[i].before \/ CompleteAppend(hist[i])

-----------------------------------------------------------------------------
(* Two processes running log_paper_notification on the same log file: the    *)
(* read of the existing titles and the append are separate steps.            *)

\* process p enters log_paper_notification(papers): it reads the log and
\* filters the papers; with nothing new it returns at once
ReadTitles(p, papers) ==
    /\ writers[p].pc = "idle"
    /\ wpc = "idle"
    /\ ncalls < MaxCalls
    /\ ncalls' = ncalls + 1
    /\ LET new_papers == IF papers = <<>> THEN <<>> ELSE NewPapers(log, papers)
       IN  IF new_papers = <<>>
           THEN /\ writers' = [writers EXCEPT ![p] = IdleWriter]
                /\ hist' = Append(hist, [papers |-> papers, before |-> log, after |-> log])
           ELSE /\ writers' = [writers EXCEPT ![p] =
                                  [pc |-> "filtered", papers |-> papers,
                                   new_papers |-> new_papers]]
                /\ hist' = hist
    /\ overlapped' = (overlapped \/ \E q \in Procs \ {p} : writers[q].pc = "filtered")
    /\ UNCHANGED <<walkVars, agentVars, summaries, nsearch, log, clock, posterVars,
                   slugVars, summarizerVars, model_calls, wrapper_calls>>

\* process p takes its timestamp, opens the log with 'a' and writes the
\* header and the records of the new_papers it computed
AppendRecords(p) ==
    /\ writers[p].pc = "filtered"
    /\ log' = OpenAppend(log,
                 HeaderText(Timestamp(clock))
                 \o Concat([i \in DOMAIN writers[p].new_papers |->
                               RecordText(writers[p].new_papers[i])]))
    /\ clock' = clock + 1
    /\ hist' = Append(hist, [papers |-> writers[p].papers, before |-> log, after |-> log'])
    /\ writers' = [writers EXCEPT ![p] = IdleWriter]
    /\ UNCHANGED <<walkVars, agentVars, summaries, nsearch, ncalls, posterVars,
                   slugVars, summarizerVars, model_calls, overlapped, wrapper_calls>>

WriterPaperLists ==
    { <<>>, <<PaperFo>>, <<PaperBa>>, <<PaperSpaceFo>>, <<PaperBa, PaperFo>> }

NextWriters ==
    \/ \E p \in Procs : \E papers \in WriterPaperLists : ReadTitles(p, papers)
    \/ \E p \in Procs : AppendRecords(p)

SpecWriters == Init /\ [][NextWriters]_vars

\* how many lines of the log are the 'Title: ' line of a title
TitleLineCount(title) ==
    IF log.exists
    THEN Cardinality({i \in DOMAIN SplitOn(log.content, NL) :
                         SplitOn(log.content, NL)[i] = TitlePrefix \o title})
    ELSE 0

\* two finished calls, both given the same one paper
SamePaperTwice ==
    /\ Len(hist) = 2
    /\ \A p \in Procs : writers[p].pc = "idle"
    /\ hist[1].papers = hist[2].papers
    /\ Len(hist[1].papers) = 1

\* C23: when the two calls ran one after the other, the paper they were both
\* given stands in the log once.
C23_SerialAppendsOnce ==
    (SamePaperTwice /\ ~overlapped) => TitleLineCount(hist[1].papers[1].title) = 1

\* the interleaving C23 names: both processes passed the title check before
\* either appended, and the paper stands in the log twice
C23_RaceAppendsTwice ==
    /\ SamePaperTwice
    /\ overlapped
    /\ TitleLineCount(hist[1].papers[1].title) = 2

-----------------------------------------------------------------------------
(* LanguageModelWrapper (ai_rule_code.py): generate_response and the helper  *)
(* call it may make.                                                         *)

FunctionPrefix == <<"F", "U", "N", "C", "T", "I", "O", "N", ":">>
QueryKey == <<"q", "u", "e", "r", "y", "=", "\"">>
NoFunctionNeeded ==
    <<"N", "O", "_", "F", "U", "N", "C", "T", "I", "O", "N", "_", "N", "E", "E", "D",
      "E", "D">>
CallFindPapers ==
    <<" ", "F", "U", "N", "C", "T", "I", "O", "N", ":", " ", "f", "i", "n", "d", "_",
      "p", "a", "p", "e", "r", "s", "(", "q", "u", "e", "r", "y", "=", "\"", "A", "b",
      "\"", ")", "\n">>
CallNoParams ==
    <<"F", "U", "N", "C", "T", "I", "O", "N", ":", " ", "f", "i", "n", "d", "_", "p",
      "a", "p", "e", "r", "s", "(", ")">>
CallUnmapped ==
    <<"F", "U", "N", "C", "T", "I", "O", "N", ":", " ", "t", "w", "e", "e", "t", "(",
      "q", "u", "e", "r", "y", "=", "\"", "x", "\"", ")">>
CallNoName ==
    <<"F", "U", "N", "C", "T", "I", "O", "N", ":", " ", "(", "q", "u", "e", "r", "y",
      "=", "\"", "x", "\"", ")">>
CallSummarize ==
    <<"F", "U", "N", "C", "T", "I", "O", "N", ":", "s", "u", "m", "m", "a", "r", "i",
      "z", "e", "_", "p", "a", "p", "e", "r", "s", "(", "q", "u", "e", "r", "y", "=",
      "\"", "1", "0", ".", "1", "1", "0", "1", "/", "a", "\"">>
FnFindPapers == <<"f", "i", "n", "d", "_", "p", "a", "p", "e", "r", "s">>
FnSummarizePapers ==
    <<"s", "u", "m", "m", "a", "r", "i", "z", "e", "_", "p", "a", "p", "e", "r", "s">>
FnGeneratePaperImages ==
    <<"g", "e", "n", "e", "r", "a", "t", "e", "_", "p", "a", "p", "e", "r", "_", "i",
      "m", "a", "g", "e", "s">>

\* the keys of function_mapping
FunctionMapping == {FnFindPapers, FnSummarizePapers, FnGeneratePaperImages}

\* str.rfind(sub) + 1: the rightmost index at which sub occurs in s, 0 for none
RFind(s, sub) ==
    LET at == {i \in 1..Len(s) : StartsAt(s, sub, i)}
    IN  IF at = {} THEN 0 ELSE Max(at)

\* _parse_function_call(response_text): the name before the first '(' and the
\* query found in response_text[find('(')+1 : rfind(')')]; without a ')' the
\* slice ends at index -1, before the last character
parse_function_call(response_text) ==
    LET open == Find(response_text, <<"(">>, 1)
        close == RFind(response_text, <<")">>)
        params_str == SubSeq(response_text, open + 1,
                             IF close > 0 THEN close - 1 ELSE Len(response_text) - 1)
    IN  [func_name |-> Strip(SplitOn(response_text, <<"(">>)[1]),
         params |-> IF Contains(QueryKey, params_str)
                    THEN PyDict([query |->
                            PyStr(SplitOn(SplitOn(params_str, QueryKey)[2], <<"\"">>)[1])])
                    ELSE EmptyDict]

\* _execute_function(func_name, params): helper is what the mapped function
\* does when it is called, "returns" or "raises"
execute_function(func_name, params, helper) ==
    IF func_name \in FunctionMapping
    THEN [executed |-> <<[name |-> func_name, params |-> params]>>,
          returned |-> helper = "returns"]
    ELSE [executed |-> <<>>, returned |-> FALSE]

\* generate_response(prompt): first and second are what the two
\* chat.completions.create calls do
generate_response(first, helper, second) ==
    IF ~first.ok
    THEN [first |-> first, executed |-> <<>>, returned |-> FALSE, result |-> PyNone]
    ELSE LET function_response == Strip(first.content)
             is_call == StartsAt(function_response, FunctionPrefix, 1)
             parsed == parse_function_call(
                           Strip(ReplaceAll(function_response, FunctionPrefix, <<>>)))
             func_name == IF is_call THEN PyStr(parsed.func_name) ELSE PyNone
             run == IF is_call /\ Truthy(func_name) /\ Truthy(parsed.params)
                    THEN execute_function(parsed.func_name, parsed.params, helper)
                    ELSE [executed |-> <<>>, returned |-> FALSE]
         IN  [first |-> first, executed |-> run.executed, returned |-> run.returned,
              result |-> IF second.ok
                         THEN PyDict([text |-> PyStr(Strip(second.content)),
                                      tool_used |-> IF Truthy(func_name) THEN func_name
                                                    ELSE PyStr(<<>>)])
                         ELSE PyNone]

FirstReplies ==
    {[ok |-> FALSE, content |-> <<>>]}
    \cup {[ok |-> TRUE, content |-> c] :
            c \in {NoFunctionNeeded, CallFindPapers, CallNoParams, CallUnmapped,
                   CallNoName, CallSummarize}}

SecondReplies ==
    { [ok |-> FALSE, content |-> <<>>], [ok |-> TRUE, content |-> <<" ", "t", "w">>] }

GenerateResponse(first, helper, second) ==
    /\ Len(wrapper_calls) < MaxCalls
    /\ wrapper_calls' = Append(wrapper_calls, generate_response(first, helper, second))
    /\ UNCHANGED <<walkVars, logVars, agentVars, summaries, nsearch, ncalls,
                   posterVars, slugVars, summarizerVars, model_calls, writers,
                   overlapped>>

NextWrapper ==
    \E first \in FirstReplies : \E helper \in {"returns", "raises"} :
        \E second \in SecondReplies : GenerateResponse(first, helper, second)

SpecWrapper == Init /\ [][NextWrapper]_vars

\* C27: every generate_response call ran at most one helper, and a result
\* that names a tool comes from a call in which a function of the mapping
\* ran and returned.
C27_ToolUsedMeansExecuted ==
    \A i \in DOMAIN wrapper_calls :
        LET c == wrapper_calls[i]
        IN  /\ Len(c.executed) <= 1
            /\ (c.result.type = "dict" /\ c.result.fields["tool_used"].s # <<>>)
                  => (/\ Len(c.executed) = 1
                      /\ c.executed[1].name \in FunctionMapping
                      /\ c.returned)

====
